---- MODULE Spec2Model ----
(***************************************************************************)
(* kubecap: per-node memory headroom report and evictable-container scan.  *)
(* The model follows main() of main.go statement by statement: three list  *)
(* reads, the pod index, the sort of the node metrics, then one node fetch *)
(* and one headroom computation per node, and the final rendering.         *)
(*                                                                         *)
(* Node names are modelled by their rank in Go's string order: 0 is the    *)
(* empty string "", 1..MaxNodes are the non-empty names in ascending       *)
(* order.  A resource list (requests, limits, usage) is a sequence of      *)
(* length at most one: <<>> when the memory key is absent, <<v>> when it   *)
(* is present with value v.                                                *)
(*                                                                         *)
(* int64 / uint64 arithmetic is modelled at a width of IntBits bits        *)
(* (two's complement), so that the wrap-around of main.go:163-164 is       *)
(* within reach of the model checker.                                      *)
(***************************************************************************)
EXTENDS Integers, Sequences, FiniteSets, TLC

MaxNodes == 2
MaxPods == 2
IntBits == 12

VARIABLES cluster, additional, pc, nodeMetricsList, podMetricsList, podList,
          nps, idx, node, nodeTable, evictableTable, output, trace

vars == <<cluster, additional, pc, nodeMetricsList, podMetricsList, podList,
          nps, idx, node, nodeTable, evictableTable, output, trace>>

NodeNames == 1..MaxNodes

----------------------------------------------------------------------------
(* Fixed-width integers.                                                   *)

RECURSIVE Pow2(_)
Pow2(n) == IF n = 0 THEN 1 ELSE 2 * Pow2(n - 1)

Modulus == Pow2(IntBits)
Half == Pow2(IntBits - 1)

\* int64(x) of an unsigned value: the same bits read as two's complement.
ToInt64(u) == IF u >= Half THEN u - Modulus ELSE u

\* a - b on int64: the result wraps around.
Sub64(a, b) == ((a - b + Half) % Modulus) - Half

----------------------------------------------------------------------------
(* Resource lists.                                                         *)

\* ResourceList.Memory(): the quantity under the memory key, or a non-nil
\* zero quantity when the key is absent.
Memory(rl) == IF rl = <<>> THEN 0 ELSE rl[1]

----------------------------------------------------------------------------
(* The pod index.                                                          *)

\* Lookup of nps[nodeName]: a missing key reads as the nil slice.
PodsOn(index, nodeName) ==
    IF nodeName \in DOMAIN index THEN index[nodeName] ELSE <<>>

\* Mutant of add: the guard on the empty node name is missing.
addUnguarded(index, p) ==
    [n \in (DOMAIN index) \cup {p.nodeName} |->
        IF n = p.nodeName THEN Append(PodsOn(index, n), p) ELSE index[n]]

\* NodePods.add: a pod without an assigned node is dropped, any other pod is
\* appended (as a deep copy) to the slice of its node.
add(index, p) ==
    IF p.nodeName = 0
    THEN index
    ELSE [n \in (DOMAIN index) \cup {p.nodeName} |->
            IF n = p.nodeName THEN Append(PodsOn(index, n), p) ELSE index[n]]

\* NewNodePods: add every pod of the listing, in listing order.
NewNodePods(pods) ==
    LET F[k \in 0..Len(pods)] ==
            IF k = 0 THEN <<>> ELSE add(F[k - 1], pods[k])
    IN  F[Len(pods)]

\* Sum of the memory requests of the containers of one pod.
PodRequests(pod) ==
    LET F[k \in 0..Len(pod.containers)] ==
            IF k = 0 THEN 0 ELSE F[k - 1] + Memory(pod.containers[k].requests)
    IN  F[Len(pod.containers)]

\* NodePods.MemoryRequests: zero for a node that is not a key of the index,
\* otherwise the sum over the node's pods and their containers.
MemoryRequests(index, nodeName) ==
    IF nodeName \notin DOMAIN index
    THEN 0
    ELSE LET pods == index[nodeName]
             F[k \in 0..Len(pods)] ==
                 IF k = 0 THEN 0 ELSE F[k - 1] + PodRequests(pods[k])
         IN  F[Len(pods)]

----------------------------------------------------------------------------
(* Sorting the node metrics.                                               *)

\* Mutant of Less: the comparison is flipped.
LessFlipped(a, b) == a.name > b.name

\* The comparator handed to sort.Slice: ascending node name.
Less(a, b) == a.name < b.name

\* One pass of the insertion sort sort.Slice runs on a short slice: the new
\* item moves left for as long as it is less than its left neighbour.
RECURSIVE Insert(_, _)
Insert(s, x) ==
    IF s = <<>> \/ ~Less(x, s[Len(s)])
    THEN Append(s, x)
    ELSE Append(Insert(SubSeq(s, 1, Len(s) - 1), x), s[Len(s)])

\* sort.Slice(nodeMetricsList.Items, less).
SortSlice(items) ==
    LET F[k \in 0..Len(items)] ==
            IF k = 0 THEN <<>> ELSE Insert(F[k - 1], items[k])
    IN  F[Len(items)]

----------------------------------------------------------------------------
(* The evictable-container scan.                                           *)

\* Mutant of NoOvercommit: only a request strictly above the limit is skipped.
NoOvercommitStrict(c) == Memory(c.requests) > Memory(c.limits)

\* Mutant of NoOvercommit: an absent limit is taken for a nil quantity, so a
\* container without a limit is not skipped.
NoOvercommitNilLimit(c) ==
    c.limits # <<>> /\ Memory(c.requests) >= Memory(c.limits)

\* memLim != nil && memReq.Cmp(*memLim) >= 0: Memory() never returns nil, so
\* the test is the comparison alone.
NoOvercommit(c) == Memory(c.requests) >= Memory(c.limits)

\* The row appended to the evictable table.
EvictableRow(nodeName, pod, c, memUsed) ==
    [node |-> nodeName, namespace |-> pod.namespace, pod |-> pod.name,
     container |-> c.name, requests |-> Memory(c.requests),
     used |-> memUsed, limits |-> Memory(c.limits)]

\* The loop over pm.Containers: every container of the entry that has the
\* name, reports memory usage and uses more than the request adds a row.
\* There is no break after a match.
MetricRows(nodeName, pod, c, pm) ==
    LET F[k \in 0..Len(pm.containers)] ==
            IF k = 0 THEN <<>>
            ELSE LET pmc == pm.containers[k]
                 IN  IF pmc.name # c.name THEN F[k - 1]
                     ELSE IF pmc.usage # <<>> /\ Memory(c.requests) < pmc.usage[1]
                          THEN Append(F[k - 1],
                                      EvictableRow(nodeName, pod, c, pmc.usage[1]))
                          ELSE F[k - 1]
    IN  F[Len(pm.containers)]

\* The loop over podMetricsList.Items for one container.
ContainerRows(nodeName, pod, c, pml) ==
    IF Memory(c.requests) = 0 THEN <<>>
    ELSE IF NoOvercommit(c) THEN <<>>
    ELSE LET F[k \in 0..Len(pml)] ==
                 IF k = 0 THEN <<>>
                 ELSE IF pml[k].namespace # pod.namespace \/ pml[k].name # pod.name
                      THEN F[k - 1]
                      ELSE F[k - 1] \o MetricRows(nodeName, pod, c, pml[k])
         IN  F[Len(pml)]

\* The loop over the containers of one pod.
PodRows(nodeName, pod, pml) ==
    LET F[k \in 0..Len(pod.containers)] ==
            IF k = 0 THEN <<>>
            ELSE F[k - 1] \o ContainerRows(nodeName, pod, pod.containers[k], pml)
    IN  F[Len(pod.containers)]

\* Mutant of NodeRows: the node is scanned whatever its flag.
NodeRowsAlways(nodeName, enough, index, pml) ==
    LET pods == PodsOn(index, nodeName)
        F[k \in 0..Len(pods)] ==
            IF k = 0 THEN <<>> ELSE F[k - 1] \o PodRows(nodeName, pods[k], pml)
    IN  F[Len(pods)]

\* if !enough { for _, pod := range nps[node.Name] ... }: the rows one node
\* adds to the evictable table.
NodeRows(nodeName, enough, index, pml) ==
    IF enough THEN <<>>
    ELSE LET pods == PodsOn(index, nodeName)
             F[k \in 0..Len(pods)] ==
                 IF k = 0 THEN <<>> ELSE F[k - 1] \o PodRows(nodeName, pods[k], pml)
         IN  F[Len(pods)]

----------------------------------------------------------------------------
(* The headroom figures of one node.                                       *)

\* enough := fwa > 0 && swa > 0
Enough(fwa, swa) == fwa > 0 /\ swa > 0

\* The row appended to the node table (the efficiency column, a float that
\* feeds nothing else, is left out).
NodeRow(name, allocatable, used, requests, extra) ==
    LET free == Sub64(allocatable, used)
        schedulable == Sub64(allocatable, requests)
        fwa == Sub64(free, ToInt64(extra))
        swa == Sub64(schedulable, ToInt64(extra))
    IN  [name |-> name, allocatable |-> allocatable, used |-> used,
         free |-> free, requests |-> requests, schedulable |-> schedulable,
         fwa |-> fwa, swa |-> swa, enough |-> Enough(fwa, swa)]

\* Mutant of Buffered: every appended row goes to standard output at once.
Flushed(out, rows) == out \o rows

\* tablewriter.Append keeps the rows in the table; standard output is left
\* as it is until Render.
Buffered(out, rows) == out

\* Render of both tables, each under its title line.
Rendered(nodeRows, evictableRows) ==
    <<[table |-> "title", row |-> [text |-> "Node Report"]]>>
    \o [k \in 1..Len(nodeRows) |-> [table |-> "node", row |-> nodeRows[k]]]
    \o <<[table |-> "title", row |-> [text |-> "Evictable Pods Report"]]>>
    \o [k \in 1..Len(evictableRows) |->
           [table |-> "evictable", row |-> evictableRows[k]]]

----------------------------------------------------------------------------
(* The run of main().                                                      *)

Event(op, ok, n) == [op |-> op, ok |-> ok, node |-> n]

\* Mutant of After: the pod index is built before the pods are listed.
AfterIndexEarly(p) ==
    CASE p = "listNodeMetrics" -> "listPodMetrics"
      [] p = "listPodMetrics" -> "newNodePods"
      [] p = "newNodePods" -> "listPods"
      [] OTHER -> "sort"

\* The order of the statements of main() before the loop over the nodes.
After(p) ==
    CASE p = "listNodeMetrics" -> "listPodMetrics"
      [] p = "listPodMetrics" -> "listPods"
      [] p = "listPods" -> "newNodePods"
      [] OTHER -> "sort"

\* The head of the loop over nodeMetricsList.Items.
LoopHead(i, items) == IF i <= Len(items) THEN "getNode" ELSE "render"

\* The node the current read is about (0 for a list read).
ReadTarget ==
    IF pc = "getNode" THEN nodeMetricsList[idx].name ELSE 0

\* mcs.MetricsV1beta1().NodeMetricses().List(...) succeeds.
ListNodeMetrics ==
    /\ pc = "listNodeMetrics"
    /\ nodeMetricsList' = cluster.nodeMetrics
    /\ pc' = After(pc)
    /\ trace' = Append(trace, Event("listNodeMetrics", TRUE, 0))
    /\ UNCHANGED <<cluster, additional, podMetricsList, podList, nps, idx, node,
                   nodeTable, evictableTable, output>>

\* mcs.MetricsV1beta1().PodMetricses("").List(...) succeeds.
ListPodMetrics ==
    /\ pc = "listPodMetrics"
    /\ podMetricsList' = cluster.podMetrics
    /\ pc' = After(pc)
    /\ trace' = Append(trace, Event("listPodMetrics", TRUE, 0))
    /\ UNCHANGED <<cluster, additional, nodeMetricsList, podList, nps, idx, node,
                   nodeTable, evictableTable, output>>

\* kcs.CoreV1().Pods("").List(...) succeeds.
ListPods ==
    /\ pc = "listPods"
    /\ podList' = cluster.pods
    /\ pc' = After(pc)
    /\ trace' = Append(trace, Event("listPods", TRUE, 0))
    /\ UNCHANGED <<cluster, additional, nodeMetricsList, podMetricsList, nps, idx,
                   node, nodeTable, evictableTable, output>>

\* Any of the four reads returns an error: panic(err.Error()).
ReadFails ==
    /\ pc \in {"listNodeMetrics", "listPodMetrics", "listPods", "getNode"}
    /\ pc' = "panicked"
    /\ trace' = Append(trace, Event(pc, FALSE, ReadTarget))
    /\ UNCHANGED <<cluster, additional, nodeMetricsList, podMetricsList, podList,
                   nps, idx, node, nodeTable, evictableTable, output>>

\* nps := NewNodePods(podList)
BuildIndex ==
    /\ pc = "newNodePods"
    /\ nps' = NewNodePods(podList)
    /\ pc' = After(pc)
    /\ trace' = Append(trace, Event("newNodePods", TRUE, 0))
    /\ UNCHANGED <<cluster, additional, nodeMetricsList, podMetricsList, podList,
                   idx, node, nodeTable, evictableTable, output>>

\* sort.Slice(nodeMetricsList.Items, ...) and the entry into the loop.
SortNodes ==
    /\ pc = "sort"
    /\ nodeMetricsList' = SortSlice(nodeMetricsList)
    /\ idx' = 1
    /\ pc' = LoopHead(1, nodeMetricsList')
    /\ trace' = Append(trace, Event("sort", TRUE, 0))
    /\ UNCHANGED <<cluster, additional, podMetricsList, podList, nps, node,
                   nodeTable, evictableTable, output>>

\* kcs.CoreV1().Nodes().Get(..., name, ...) succeeds.
GetNode ==
    /\ pc = "getNode"
    /\ LET name == nodeMetricsList[idx].name
       IN  /\ node' = [name |-> name, allocatable |-> cluster.allocatable[name]]
           /\ trace' = Append(trace, Event("getNode", TRUE, name))
    /\ pc' = "compute"
    /\ UNCHANGED <<cluster, additional, nodeMetricsList, podMetricsList, podList,
                   nps, idx, nodeTable, evictableTable, output>>

\* The rest of the loop body: the figures of the node, the scan of its
\* containers when it lacks headroom, and the row of the node table.
ComputeNode ==
    /\ pc = "compute"
    /\ LET name == nodeMetricsList[idx].name
           used == nodeMetricsList[idx].used
           requests == MemoryRequests(nps, node.name)
           row == NodeRow(name, node.allocatable, used, requests, additional)
           rows == NodeRows(node.name, row.enough, nps, podMetricsList)
       IN  /\ evictableTable' = evictableTable \o rows
           /\ nodeTable' = Append(nodeTable, row)
           /\ output' = Buffered(output,
                  [k \in 1..Len(rows) |-> [table |-> "evictable", row |-> rows[k]]]
                  \o <<[table |-> "node", row |-> row]>>)
           /\ trace' = Append(trace, Event("compute", TRUE, name))
    /\ idx' = idx + 1
    /\ pc' = LoopHead(idx + 1, nodeMetricsList)
    /\ UNCHANGED <<cluster, additional, nodeMetricsList, podMetricsList, podList,
                   nps, node>>

\* nodeTable.Render() and evictableTable.Render() after the loop.
Render ==
    /\ pc = "render"
    /\ output' = output \o Rendered(nodeTable, evictableTable)
    /\ pc' = "done"
    /\ UNCHANGED <<cluster, additional, nodeMetricsList, podMetricsList, podList,
                   nps, idx, node, nodeTable, evictableTable, trace>>

Next ==
    \/ ListNodeMetrics
    \/ ListPodMetrics
    \/ ListPods
    \/ ReadFails
    \/ BuildIndex
    \/ SortNodes
    \/ GetNode
    \/ ComputeNode
    \/ Render

----------------------------------------------------------------------------
(* The clusters and command lines the runs start from.                     *)

Container(name, req, lim) == [name |-> name, requests |-> req, limits |-> lim]

Pod(ns, name, nodeName, cs) ==
    [namespace |-> ns, name |-> name, nodeName |-> nodeName, containers |-> cs]

ContainerMetrics(name, usage) == [name |-> name, usage |-> usage]

PodMetrics(ns, name, cs) == [namespace |-> ns, name |-> name, containers |-> cs]

\* Pod names are unique within a namespace: the pod at position k is pod k.
PodName(k) == <<"p1", "p2", "p3", "p4">>[k]

\* Every order of every set of distinct node names.
NodeOrders ==
    {s \in UNION {[1..k -> NodeNames] : k \in 0..MaxNodes} :
        \A i, j \in DOMAIN s : i # j => s[i] # s[j]}

\* The node-metrics listings: any order of any nodes, each using 400 or 900.
NodeMetricsListings ==
    {[k \in DOMAIN s |-> [name |-> s[k], used |-> u[s[k]]]] :
        s \in NodeOrders, u \in [NodeNames -> {400, 900}]}

EveryNodeAllocatable == [n \in NodeNames |-> 1000]

\* The state of the program before its first read.
Start(clusters, additionals) ==
    /\ cluster \in clusters
    /\ additional \in additionals
    /\ pc = "listNodeMetrics"
    /\ nodeMetricsList = <<>>
    /\ podMetricsList = <<>>
    /\ podList = <<>>
    /\ nps = <<>>
    /\ idx = 0
    /\ node = [name |-> 0, allocatable |-> 0]
    /\ nodeTable = <<>>
    /\ evictableTable = <<>>
    /\ output = <<>>
    /\ trace = <<>>

Clusters(nodeMetrics, podMetrics, pods) ==
    [nodeMetrics : nodeMetrics, podMetrics : podMetrics, pods : pods,
     allocatable : {EveryNodeAllocatable}]

\* Runs that exercise the order of reads, computation and output.
FlowPods ==
    {<<>>,
     <<Pod("default", "p1", MaxNodes, <<Container("c1", <<100>>, <<500>>)>>),
       Pod("default", "p2", 1, <<Container("c1", <<100>>, <<500>>)>>)>>}

FlowPodMetrics ==
    {<<PodMetrics("default", "p1", <<ContainerMetrics("c1", <<150>>)>>),
       PodMetrics("default", "p2", <<ContainerMetrics("c1", <<160>>)>>)>>}

Init ==
    Start(Clusters(NodeMetricsListings, FlowPodMetrics, FlowPods), {0, 100})

Spec == Init /\ [][Next]_vars

\* Runs that exercise the pod index: every listing of up to MaxPods pods.
IndexContainers ==
    {<<>>,
     <<Container("c1", <<>>, <<>>)>>,
     <<Container("c1", <<100>>, <<500>>)>>,
     <<Container("c1", <<100>>, <<500>>), Container("c2", <<200>>, <<200>>)>>,
     <<Container("c1", <<>>, <<500>>), Container("c2", <<200>>, <<>>)>>}

IndexPods ==
    UNION {{[k \in 1..n |-> Pod("default", PodName(k), a[k], c[k])] :
               a \in [1..n -> 0..MaxNodes], c \in [1..n -> IndexContainers]} :
           n \in 0..MaxPods}

IndexNodeMetrics ==
    {[k \in 1..MaxNodes |-> [name |-> MaxNodes + 1 - k, used |-> 400]]}

InitIndex ==
    Start(Clusters(IndexNodeMetrics, {<<>>}, IndexPods), {0})

SpecIndex == InitIndex /\ [][Next]_vars

\* Runs that exercise the headroom figures, up to the full unsigned range of
\* the additional amount.
HeadroomPods ==
    {<<>>,
     <<Pod("default", "p1", 1, <<Container("c1", <<300>>, <<500>>)>>)>>,
     <<Pod("default", "p1", 1, <<Container("c1", <<950>>, <<>>)>>)>>}

HeadroomAdditionals == {0, 100, Half - 1, Half, Modulus - Pow2(IntBits - 4)}

InitHeadroom ==
    Start(Clusters(NodeMetricsListings, {<<>>}, HeadroomPods), HeadroomAdditionals)

SpecHeadroom == InitHeadroom /\ [][Next]_vars

\* Runs that exercise the evictable-container scan: one insufficient and one
\* sufficient node, containers with every shape of request and limit, and
\* pod-metrics listings with missing, mismatching and repeated entries.
EvictContainers ==
    {<<Container("c1", <<100>>, <<500>>)>>,
     <<Container("c1", <<200>>, <<200>>)>>,
     <<Container("c1", <<100>>, <<>>)>>,
     <<Container("c1", <<>>, <<500>>)>>,
     <<Container("c1", <<300>>, <<200>>)>>,
     <<Container("c1", <<0>>, <<500>>)>>,
     <<Container("c1", <<100>>, <<500>>), Container("c2", <<200>>, <<200>>)>>}

EvictPods ==
    LET first == {Pod("default", "p1", n, cs) :
                     n \in 0..MaxNodes, cs \in EvictContainers}
        second == Pod("default", "p2", MaxNodes,
                      <<Container("c1", <<100>>, <<500>>)>>)
    IN  {<<>>} \cup {<<p>> : p \in first} \cup {<<p, second>> : p \in first}

EvictPodMetricsEntries ==
    {PodMetrics("default", "p1", <<ContainerMetrics("c1", <<150>>)>>),
     PodMetrics("default", "p1", <<ContainerMetrics("c1", <<250>>),
                                   ContainerMetrics("c1", <<160>>)>>),
     PodMetrics("default", "p1", <<ContainerMetrics("c1", <<50>>),
                                   ContainerMetrics("c2", <<250>>)>>),
     PodMetrics("default", "p1", <<ContainerMetrics("c1", <<>>)>>),
     PodMetrics("kube-system", "p1", <<ContainerMetrics("c1", <<150>>)>>),
     PodMetrics("default", "p2", <<ContainerMetrics("c1", <<150>>)>>)}

EvictPodMetrics ==
    UNION {[1..n -> EvictPodMetricsEntries] : n \in 0..2}

EvictNodeMetrics ==
    {<<[name |-> 1, used |-> 900]>>,
     <<[name |-> 1, used |-> 400]>>,
     <<[name |-> MaxNodes, used |-> 400], [name |-> 1, used |-> 900]>>}

InitEvict ==
    Start(Clusters(EvictNodeMetrics, EvictPodMetrics, EvictPods), {100})

SpecEvict == InitEvict /\ [][Next]_vars

----------------------------------------------------------------------------
(* Properties.                                                             *)

RECURSIVE SumOf(_, _)
SumOf(S, f) ==
    IF S = {} THEN 0
    ELSE LET x == CHOOSE y \in S : TRUE IN f[x] + SumOf(S \ {x}, f)

\* Some event of the run so far is of the given kind.
Happened(op) == \E k \in DOMAIN trace : trace[k].op = op

\* The containers of a pod listing, as <<pod position, container position>>.
Listed(pods) ==
    {<<k, j>> : k \in DOMAIN pods, j \in 1..10} \cap
    UNION {{<<k, j>> : j \in DOMAIN pods[k].containers} : k \in DOMAIN pods}

\* The memory requests the listing declares for node n, container by container.
ListedRequests(pods, n) ==
    LET on == {x \in Listed(pods) : pods[x[1]].nodeName = n}
        req == [x \in on |->
                   LET r == pods[x[1]].containers[x[2]].requests
                   IN  IF r = <<>> THEN 0 ELSE r[1]]
    IN  SumOf(on, req)

\* C1: once the index is built, MemoryRequests(n) is, for every node name n,
\* the sum of the memory requests of the containers of the listed pods
\* assigned to n; pods without a node count for no node (the empty name
\* included), a container without a request counts zero, and a node without
\* pods yields zero.
C1_MemoryRequestsIsListedSum ==
    Happened("newNodePods") =>
        /\ MemoryRequests(nps, 0) = 0
        /\ \A n \in 1..(MaxNodes + 1) :
               MemoryRequests(nps, n) = ListedRequests(podList, n)

C1_Witness ==
    /\ Happened("newNodePods")
    /\ \E k \in DOMAIN podList :
           podList[k].nodeName = 0 /\ ListedRequests(podList, 0) > 0
    /\ \E n \in NodeNames :
           /\ MemoryRequests(nps, n) > 0
           /\ \E x \in Listed(podList) :
                  /\ podList[x[1]].nodeName = n
                  /\ podList[x[1]].containers[x[2]].requests = <<>>
    /\ \E n \in NodeNames : \A k \in DOMAIN podList : podList[k].nodeName # n

\* C2: a node is flagged sufficient exactly when free - additional > 0 and
\* schedulable - additional > 0, with free = allocatable - used and
\* schedulable = allocatable - requests, both comparisons strict.
C2_SufficientIffBothPositive ==
    \A k \in DOMAIN nodeTable :
        LET r == nodeTable[k]
            free == r.allocatable - r.used
            schedulable == r.allocatable - r.requests
        IN  r.enough <=> (free - additional > 0 /\ schedulable - additional > 0)

\* The positions of the evictable table that hold a record of the container.
RowsOf(n, pod, c) ==
    {k \in DOMAIN evictableTable :
        /\ evictableTable[k].node = n
        /\ evictableTable[k].namespace = pod.namespace
        /\ evictableTable[k].pod = pod.name
        /\ evictableTable[k].container = c.name}

\* The node has been processed and its flag is the given one.
Flagged(n, flag) ==
    \E k \in DOMAIN nodeTable : nodeTable[k].name = n /\ nodeTable[k].enough = flag

\* The entries of the pod-metrics listing that match the container, as
\* <<entry position, container position>>.
Matches(pod, c) ==
    {x \in Listed(podMetricsList) :
        /\ podMetricsList[x[1]].namespace = pod.namespace
        /\ podMetricsList[x[1]].name = pod.name
        /\ podMetricsList[x[1]].containers[x[2]].name = c.name}

UsageAt(x) == podMetricsList[x[1]].containers[x[2]].usage

\* Some matching entry reports a memory usage above the container's request.
UsesMoreThanRequested(pod, c) ==
    \E x \in Matches(pod, c) : UsageAt(x) # <<>> /\ UsageAt(x)[1] > Memory(c.requests)

\* C3: a container whose request is greater than or equal to its limit is
\* never emitted, whatever its usage and its node's flag; every emitted
\* record has usage above the request and a limit different from the request.
C3_NoRecordWhenRequestAtLeastLimit ==
    /\ \A x \in Listed(podList) :
           LET pod == podList[x[1]]
               c == pod.containers[x[2]]
           IN  (c.limits # <<>> /\ Memory(c.requests) >= c.limits[1])
                   => RowsOf(pod.nodeName, pod, c) = {}
    /\ \A k \in DOMAIN evictableTable :
           /\ evictableTable[k].used > evictableTable[k].requests
           /\ evictableTable[k].limits # evictableTable[k].requests

C3_Witness ==
    /\ pc = "done"
    /\ evictableTable # <<>>
    /\ \E x \in Listed(podList) :
           LET pod == podList[x[1]]
               c == pod.containers[x[2]]
           IN  /\ c.requests = <<200>> /\ c.limits = <<200>>
               /\ Flagged(pod.nodeName, FALSE)
               /\ UsesMoreThanRequested(pod, c)
               /\ RowsOf(pod.nodeName, pod, c) = {}

\* A container the scan is after: a nonzero request strictly below a
\* declared limit, and a matching entry that reports more than the request.
Overusing(pod, c) ==
    /\ c.requests # <<>> /\ c.requests[1] # 0
    /\ c.limits # <<>> /\ c.requests[1] < c.limits[1]
    /\ UsesMoreThanRequested(pod, c)

\* C4: on a processed node, a container with a nonzero request below its
\* declared limit and a matching entry above the request is emitted if and
\* only if the node is flagged insufficient; a node flagged sufficient adds
\* no record at all.
C4_EmittedIffNodeInsufficient ==
    /\ \A x \in Listed(podList) :
           LET pod == podList[x[1]]
               c == pod.containers[x[2]]
           IN  \A flag \in BOOLEAN :
                   (Overusing(pod, c) /\ Flagged(pod.nodeName, flag))
                       => (RowsOf(pod.nodeName, pod, c) # {} <=> ~flag)
    /\ \A k \in DOMAIN evictableTable : ~Flagged(evictableTable[k].node, TRUE)

C4_Witness ==
    /\ pc = "done"
    /\ \E x, y \in Listed(podList) :
           LET pod == podList[x[1]]
               c == pod.containers[x[2]]
               other == podList[y[1]]
               d == other.containers[y[2]]
           IN  /\ c.requests = <<100>> /\ c.limits = <<500>>
               /\ Overusing(pod, c) /\ Flagged(pod.nodeName, FALSE)
               /\ \E k \in RowsOf(pod.nodeName, pod, c) : evictableTable[k].used = 150
               /\ Overusing(other, d) /\ Flagged(other.nodeName, TRUE)
               /\ RowsOf(other.nodeName, other, d) = {}

\* Some read of the run so far has failed.
SomeReadFailed == \E k \in DOMAIN trace : ~trace[k].ok

\* C5: a failed cluster read aborts the run at once, and a run that aborts
\* has written no row of either table to the output; output exists only in
\* runs where every read succeeded.
C5_AbortWritesNothing ==
    /\ SomeReadFailed => (pc = "panicked" /\ ~trace[Len(trace)].ok)
    /\ pc = "panicked" => output = <<>>
    /\ output # <<>> => (pc = "done" /\ ~SomeReadFailed)

C5_Witness ==
    /\ pc = "panicked"
    /\ trace[Len(trace)] = Event("getNode", FALSE, MaxNodes)
    /\ nodeTable # <<>>
    /\ evictableTable # <<>>
    /\ output = <<>>

ListReads == {"listNodeMetrics", "listPodMetrics", "listPods"}

Computations == {"newNodePods", "compute"}

\* C6: no cluster read (list or node fetch) occurs after the first
\* computation step (building the pod index, computing a node's figures).
C6_AllReadsBeforeComputation ==
    \A i, j \in DOMAIN trace :
        (i < j /\ trace[i].op \in Computations)
            => trace[j].op \notin ListReads \cup {"getNode"}

\* C6, amended: the three list reads precede every computation step; the
\* node fetches do not: each happens inside the loop, after the pod index is
\* built, right before the figures of the node it fetched are computed.
C6_ListReadsBeforeComputation ==
    /\ \A i, j \in DOMAIN trace :
           (i < j /\ trace[i].op \in Computations) => trace[j].op \notin ListReads
    /\ \A j \in DOMAIN trace :
           trace[j].op = "getNode" =>
               \E i \in 1..(j - 1) : trace[i].op = "newNodePods"
    /\ \A j \in DOMAIN trace :
           trace[j].op = "compute" =>
               j > 1 /\ trace[j - 1] = Event("getNode", TRUE, trace[j].node)

C6_Witness ==
    \E i, j \in DOMAIN trace :
        /\ i < j
        /\ trace[i].op = "compute"
        /\ trace[j].op = "getNode"
        /\ Happened("listPods")

\* C7: the rows of the node table are in strictly ascending order of node
\* name whatever the order of the listing, every listed node gets its row,
\* and the evictable records are grouped by node in the same order.
C7_RowsInAscendingNodeOrder ==
    /\ \A i, j \in DOMAIN nodeTable :
           i < j => nodeTable[i].name < nodeTable[j].name
    /\ \A i, j \in DOMAIN evictableTable :
           i < j => evictableTable[i].node <= evictableTable[j].node
    /\ pc = "done" =>
           {nodeTable[k].name : k \in DOMAIN nodeTable}
               = {cluster.nodeMetrics[k].name : k \in DOMAIN cluster.nodeMetrics}

C7_Witness ==
    /\ pc = "done"
    /\ Len(cluster.nodeMetrics) = MaxNodes
    /\ cluster.nodeMetrics[1].name > cluster.nodeMetrics[2].name
    /\ Len(nodeTable) = MaxNodes
    /\ Len(evictableTable) >= 2
    /\ evictableTable[1].node < evictableTable[Len(evictableTable)].node

\* The first entry of the listing that matches the container.
FirstMatch(pod, c) ==
    CHOOSE x \in Matches(pod, c) :
        \A y \in Matches(pod, c) :
            x[1] < y[1] \/ (x[1] = y[1] /\ x[2] <= y[2])

\* C8: first match wins: a container gets at most one record, also when
\* several entries of the pod-metrics listing match it, and the record
\* carries the usage of the first match in listing order.
C8_FirstMatchWins ==
    \A x \in Listed(podList) :
        LET pod == podList[x[1]]
            c == pod.containers[x[2]]
            rows == RowsOf(pod.nodeName, pod, c)
        IN  /\ Cardinality(rows) <= 1
            /\ \A k \in rows :
                   UsageAt(FirstMatch(pod, c)) = <<evictableTable[k].used>>

\* C9: a container with a nonzero request and no limit is never emitted,
\* whatever its usage; every emitted record belongs to a container with a
\* declared limit strictly above its nonzero request.
C9_NoRecordWithoutLimit ==
    /\ \A x \in Listed(podList) :
           LET pod == podList[x[1]]
               c == pod.containers[x[2]]
           IN  (Memory(c.requests) # 0 /\ c.limits = <<>>)
                   => RowsOf(pod.nodeName, pod, c) = {}
    /\ \A k \in DOMAIN evictableTable :
           /\ evictableTable[k].requests # 0
           /\ evictableTable[k].limits > evictableTable[k].requests
           /\ \E x \in Listed(podList) :
                  LET pod == podList[x[1]]
                      c == pod.containers[x[2]]
                  IN  k \in RowsOf(pod.nodeName, pod, c) /\ c.limits # <<>>

C9_Witness ==
    /\ pc = "done"
    /\ \E x \in Listed(podList) :
           LET pod == podList[x[1]]
               c == pod.containers[x[2]]
           IN  /\ c.requests = <<100>> /\ c.limits = <<>>
               /\ Flagged(pod.nodeName, FALSE)
               /\ UsesMoreThanRequested(pod, c)
               /\ RowsOf(pod.nodeName, pod, c) = {}

\* C10: for every accepted additional amount, freeWithAdditional is at most
\* free and schedulableWithAdditional at most schedulable, so that a smaller
\* amount that leaves the node insufficient leaves it insufficient for the
\* amount given.
C10_AdditionalOnlyLowersHeadroom ==
    \A k \in DOMAIN nodeTable :
        LET r == nodeTable[k]
        IN  /\ r.fwa <= r.free
            /\ r.swa <= r.schedulable
            /\ \A a \in 0..additional :
                   ~NodeRow(r.name, r.allocatable, r.used, r.requests, a).enough
                       => ~r.enough

====
